---- MODULE Spec2Model ----
(***************************************************************************)
(* Model of src/Task.py: the streaming anomaly detector                    *)
(* ZScoreEWMA_AnomalyDetector (an EWMA of the mean and of the variance and *)
(* a Z-score threshold test) together with the consumer loop that feeds it *)
(* one value per call and records the flagged indices.                     *)
(*                                                                         *)
(* Numbers.  The program computes with Python floats (IEEE 754 binary64).  *)
(* The model computes the same way: a finite float is sign * mant * 2^exp  *)
(* with mant an odd natural of at most 53 bits, every operation (+, -, *,  *)
(* /, sqrt, a decimal literal) is the exact result rounded to nearest,     *)
(* ties to even, and nan, +inf and -inf follow the IEEE rules.  Mantissas  *)
(* are arbitrary-precision naturals (little-endian sequences of 15-bit     *)
(* limbs).  Not modelled: the exponent range (overflow to inf, subnormals; *)
(* the values used stay far inside it) and the sign of zero (-0.0 is 0.0). *)
(***************************************************************************)
EXTENDS Integers, Sequences, FiniteSets

(***************************************************************************)
(* Arbitrary-precision naturals: <<>> is 0, no high zero limb.             *)
(***************************************************************************)
Base == 2^15

Limb(a, i) == IF i <= Len(a) THEN a[i] ELSE 0

RECURSIVE NatOf(_)
NatOf(n) == IF n = 0 THEN <<>> ELSE <<n % Base>> \o NatOf(n \div Base)

RECURSIVE NatTrim(_)
\* a without its high zero limbs
NatTrim(a) ==
    IF a = <<>> THEN a
    ELSE IF a[Len(a)] = 0 THEN NatTrim(SubSeq(a, 1, Len(a) - 1))
    ELSE a

RECURSIVE NatAddC(_, _, _, _)
NatAddC(a, b, i, c) ==
    IF i > Len(a) /\ i > Len(b)
    THEN IF c = 0 THEN <<>> ELSE <<c>>
    ELSE LET s == Limb(a, i) + Limb(b, i) + c
         IN  <<s % Base>> \o NatAddC(a, b, i + 1, s \div Base)

NatAdd(a, b) == NatAddC(a, b, 1, 0)

RECURSIVE NatSubB(_, _, _, _)
NatSubB(a, b, i, br) ==
    IF i > Len(a) THEN <<>>
    ELSE LET s == a[i] - Limb(b, i) - br
         IN  IF s < 0 THEN <<s + Base>> \o NatSubB(a, b, i + 1, 1)
             ELSE <<s>> \o NatSubB(a, b, i + 1, 0)

\* a - b for a >= b
NatSub(a, b) == NatTrim(NatSubB(a, b, 1, 0))

RECURSIVE NatCmpAt(_, _, _)
NatCmpAt(a, b, i) ==
    IF i = 0 THEN 0
    ELSE IF a[i] > b[i] THEN 1
    ELSE IF a[i] < b[i] THEN -1
    ELSE NatCmpAt(a, b, i - 1)

\* -1, 0, 1 as a < b, a = b, a > b
NatCmp(a, b) ==
    IF Len(a) > Len(b) THEN 1
    ELSE IF Len(a) < Len(b) THEN -1
    ELSE NatCmpAt(a, b, Len(a))

RECURSIVE NatMulSmallC(_, _, _, _)
NatMulSmallC(a, m, i, c) ==
    IF i > Len(a)
    THEN IF c = 0 THEN <<>> ELSE <<c>>
    ELSE LET p == a[i] * m + c
         IN  <<p % Base>> \o NatMulSmallC(a, m, i + 1, p \div Base)

\* a * m for a limb-sized m
NatMulSmall(a, m) == IF m = 0 THEN <<>> ELSE NatMulSmallC(a, m, 1, 0)

\* a * Base^k
NatShift(a, k) == IF a = <<>> THEN a ELSE [j \in 1..k |-> 0] \o a

RECURSIVE NatMulAt(_, _, _)
NatMulAt(a, b, i) ==
    IF i > Len(b) THEN <<>>
    ELSE NatAdd(NatShift(NatMulSmall(a, b[i]), i - 1), NatMulAt(a, b, i + 1))

NatMul(a, b) == NatMulAt(a, b, 1)

\* a * 2^k
NatShl(a, k) == NatShift(NatMulSmall(a, 2^(k % 15)), k \div 15)

\* a \div 2^k: limb i of the result is made of the high bits of limb
\* i + k \div 15 of a and the low bits of the limb above it
NatShr(a, k) ==
    LET q == k \div 15
        r == k % 15
    IN  NatTrim([i \in 1..(Len(a) - q) |->
                    (a[i + q] \div 2^r)
                        + (Limb(a, i + q + 1) % 2^r) * 2^(15 - r)])

\* the number of bits of a limb-sized n
SmallBitLen(n) ==
    IF n = 0 THEN 0 ELSE CHOOSE b \in 1..15 : 2^(b - 1) <= n /\ n < 2^b

\* the number of bits of a
BitLen(a) ==
    IF a = <<>> THEN 0 ELSE 15 * (Len(a) - 1) + SmallBitLen(a[Len(a)])

IsOdd(a) == a # <<>> /\ a[1] % 2 = 1

RECURSIVE ZeroLimbs(_, _)
ZeroLimbs(a, i) == IF a[i] = 0 THEN ZeroLimbs(a, i + 1) ELSE i - 1

\* the number of trailing zero bits of a > 0
TrailingZeros(a) ==
    LET z == ZeroLimbs(a, 1)
    IN  15 * z + (CHOOSE b \in 0..14 : a[z + 1] % 2^(b + 1) = 2^b)

\* the largest q' <= q with d * q' <= cur
RECURSIVE FitDigit(_, _, _)
FitDigit(cur, d, q) ==
    IF NatCmp(NatMulSmall(d, q), cur) <= 0 THEN q ELSE FitDigit(cur, d, q - 1)

\* long division of the limbs i, i-1, ..., 1 of a by d, with remainder r
\* of the limbs above i: <<quotient limbs, the highest first, remainder>>.
\* The top limb of d is at least Base \div 2, so the estimate of a quotient
\* limb from the two top limbs of the running remainder is at most 2 too
\* large.
RECURSIVE NatDivModAt(_, _, _, _)
NatDivModAt(a, d, i, r) ==
    IF i <= 0 THEN <<<<>>, r>>
    ELSE LET cur  == NatTrim(<<a[i]>> \o r)
             n    == Len(d)
             est  == (Limb(cur, n + 1) * Base + Limb(cur, n)) \div d[n]
             q    == FitDigit(cur, d, IF est < Base THEN est ELSE Base - 1)
             rest == NatDivModAt(a, d, i - 1, NatSub(cur, NatMulSmall(d, q)))
         IN  <<<<q>> \o rest[1], rest[2]>>

\* <<a \div d, a % d>> for d > 0: a and d are scaled to bring the top limb
\* of d to at least Base \div 2, and the division starts below the
\* Len(d) - 1 top limbs of a, which are less than d
NatDivMod(a, d) ==
    IF NatCmp(a, d) < 0 THEN <<<<>>, a>>
    ELSE LET s  == 15 - SmallBitLen(d[Len(d)])
             as == NatShl(a, s)
             ds == NatShl(d, s)
             i  == Len(as) - Len(ds) + 1
             qr == NatDivModAt(as, ds, i, SubSeq(as, i + 1, Len(as)))
         IN  <<NatTrim([k \in 1..i |-> qr[1][i + 1 - k]]), NatShr(qr[2], s)>>

\* floor(sqrt(n)) for n < 2^30
SmallSqrt(n) ==
    LET hi == CHOOSE h \in 0..127 :
                  h * h * 65536 <= n /\ n < (h + 1) * (h + 1) * 65536
    IN  CHOOSE r \in (256 * hi)..(256 * hi + 255) :
            r * r <= n /\ n < (r + 1) * (r + 1)

\* Newton's iteration for the integer square root of a, from x > sqrt(a):
\* the next x is (x + a \div x) \div 2, until that is no longer below x
RECURSIVE NatSqrtFrom(_, _)
NatSqrtFrom(a, x) ==
    LET q == NatDivMod(a, x)[1]
    IN  IF NatCmp(q, x) >= 0 THEN x
        ELSE NatSqrtFrom(a, NatShr(NatAdd(x, q), 1))

\* <<floor(sqrt(a)), a - floor(sqrt(a))^2>> for a > 0; the iteration
\* starts from the root of the 30 top bits of a, rounded up
NatSqrt(a) ==
    LET s    == IF BitLen(a) <= 30 THEN 0 ELSE 2 * ((BitLen(a) - 29) \div 2)
        top  == NatShr(a, s)
        from == NatOf(SmallSqrt(Limb(top, 1) + Limb(top, 2) * Base) + 1)
        root == NatSqrtFrom(a, NatShl(from, s \div 2))
    IN  <<root, NatSub(a, NatMul(root, root))>>

(***************************************************************************)
(* Float values: finite binary64 values, nan, +inf, -inf; None is Python's *)
(* None.  A finite value is kept canonical (odd mantissa, or 0 with        *)
(* exponent 0), so equal values are equal records.                         *)
(***************************************************************************)
None == [kind |-> "None", sign |-> 0, mant |-> <<>>, exp |-> 0]
NaN == [kind |-> "nan", sign |-> 0, mant |-> <<>>, exp |-> 0]
Inf(s) == [kind |-> "inf", sign |-> s, mant |-> <<>>, exp |-> 0]
Zero == [kind |-> "finite", sign |-> 0, mant |-> <<>>, exp |-> 0]

\* the bits of a binary64 significand
Precision == 53

\* sign * m * 2^e as a canonical record, for m of at most Precision bits
Canonical(s, m, e) ==
    IF m = <<>> THEN Zero
    ELSE LET z == TrailingZeros(m)
         IN  [kind |-> "finite", sign |-> s, mant |-> NatShr(m, z),
              exp |-> e + z]

\* sign * m * 2^e (or, when sticky, a value strictly between it and
\* sign * (m + 1) * 2^e) rounded to nearest, ties to even
Round(s, m, e, sticky) ==
    IF BitLen(m) <= Precision THEN Canonical(s, m, e)
    ELSE LET k    == BitLen(m) - Precision
             q    == NatShr(m, k)
             r    == NatSub(m, NatShl(q, k))
             c    == NatCmp(r, NatShl(<<1>>, k - 1))
             up   == c = 1 \/ (c = 0 /\ (sticky \/ IsOdd(q)))
         IN  Canonical(s, IF up THEN NatAdd(q, <<1>>) ELSE q, e + k)

IsFinite(x) == x.kind = "finite"
IsNaN(x) == x.kind = "nan"
IsInf(x) == x.kind = "inf"

Neg(x) == [x EXCEPT !.sign = -x.sign]

\* abs()
Abs(x) == [x EXCEPT !.sign = IF x.sign = 0 THEN 0 ELSE 1]

\* the exact x + y of finite x, y as <<sign, magnitude, exponent>>
ExactSum(x, y) ==
    LET e  == IF x.exp < y.exp THEN x.exp ELSE y.exp
        mx == NatShl(x.mant, x.exp - e)
        my == NatShl(y.mant, y.exp - e)
        c  == NatCmp(mx, my)
    IN  IF x.sign = 0 THEN <<y.sign, y.mant, y.exp>>
        ELSE IF y.sign = 0 THEN <<x.sign, x.mant, x.exp>>
        ELSE IF x.sign = y.sign THEN <<x.sign, NatAdd(mx, my), e>>
        ELSE IF c = 0 THEN <<0, <<>>, 0>>
        ELSE IF c = 1 THEN <<x.sign, NatSub(mx, my), e>>
        ELSE <<y.sign, NatSub(my, mx), e>>

\* float +
Add(x, y) ==
    IF IsNaN(x) \/ IsNaN(y) THEN NaN
    ELSE IF IsInf(x) /\ IsInf(y) THEN (IF x.sign = y.sign THEN x ELSE NaN)
    ELSE IF IsInf(x) THEN x
    ELSE IF IsInf(y) THEN y
    ELSE LET s == ExactSum(x, y) IN Round(s[1], s[2], s[3], FALSE)

\* float -
Sub(x, y) == Add(x, Neg(y))

\* float *
Mul(x, y) ==
    IF IsNaN(x) \/ IsNaN(y) THEN NaN
    ELSE IF IsInf(x) \/ IsInf(y)
         THEN (IF x.sign * y.sign = 0 THEN NaN ELSE Inf(x.sign * y.sign))
    ELSE Round(x.sign * y.sign, NatMul(x.mant, y.mant), x.exp + y.exp, FALSE)

\* float / for a divisor other than 0
Div(x, y) ==
    IF IsNaN(x) \/ IsNaN(y) \/ (IsInf(x) /\ IsInf(y)) THEN NaN
    ELSE IF IsInf(x) THEN Inf(x.sign * y.sign)
    ELSE IF IsInf(y) \/ x.sign = 0 THEN Zero
    ELSE LET d  == Precision + 3 + BitLen(y.mant) - BitLen(x.mant)
             t  == IF d > 0 THEN d ELSE 0
             qr == NatDivMod(NatShl(x.mant, t), y.mant)
         IN  Round(x.sign * y.sign, qr[1], x.exp - t - y.exp, qr[2] # <<>>)

\* np.sqrt: nan for nan and for negative arguments
Sqrt(x) ==
    IF IsNaN(x) \/ x.sign = -1 THEN NaN
    ELSE IF IsInf(x) \/ x.sign = 0 THEN x
    ELSE LET d  == 2 * Precision + 4 - BitLen(x.mant)
             t  == IF (x.exp - d) % 2 = 0 THEN d ELSE d + 1
             sr == NatSqrt(NatShl(x.mant, t))
         IN  Round(1, sr[1], (x.exp - t) \div 2, sr[2] # <<>>)

\* float >  (False whenever an operand is nan)
Gt(x, y) ==
    IF IsNaN(x) \/ IsNaN(y) THEN FALSE
    ELSE IF IsInf(x) \/ IsInf(y)
         THEN (IF IsInf(x) THEN x.sign ELSE 0) > (IF IsInf(y) THEN y.sign ELSE 0)
    ELSE ExactSum(x, Neg(y))[1] = 1

\* float >=
Ge(x, y) == ~IsNaN(x) /\ ~IsNaN(y) /\ (x = y \/ Gt(x, y))

\* the float of the integer n
FromInt(n) ==
    Round(IF n < 0 THEN -1 ELSE 1, NatOf(IF n < 0 THEN -n ELSE n), 0, FALSE)

\* the float of the decimal literal n / 10^e
Dec(n, e) == IF e = 0 THEN FromInt(n) ELSE Div(FromInt(n), FromInt(10^e))

One == FromInt(1)

(***************************************************************************)
(* ZScoreEWMA_AnomalyDetector                                              *)
(***************************************************************************)
\* the epsilon literal 1e-6 of the Z-score
Epsilon == Dec(1, 6)

\* ZScoreEWMA_AnomalyDetector.__init__: stores its arguments as they are
\* given, with no check of their range, and leaves both statistics None.
__init__(alpha, threshold) ==
    [alpha |-> alpha, mean_ewma |-> None, variance_ewma |-> None,
     threshold |-> threshold]

\* the mean update of detect
UpdateMean(alpha, value, mean_ewma) ==
    Add(Mul(alpha, value), Mul(Sub(One, alpha), mean_ewma))

\* faulty variant of the variance update: the deviation is not squared
UpdateVarianceNoSquare(alpha, deviation, variance_ewma) ==
    Add(Mul(alpha, deviation), Mul(Sub(One, alpha), variance_ewma))

\* the variance update of detect
UpdateVariance(alpha, deviation, variance_ewma) ==
    Add(Mul(alpha, Mul(deviation, deviation)),
        Mul(Sub(One, alpha), variance_ewma))

\* z_score = abs(deviation) / (std + 1e-6)
\* (std + 1e-6 is nan, +inf or a positive finite float, never 0)
ZScore(deviation, variance) ==
    LET std == Sqrt(variance)
    IN  Div(Abs(deviation), Add(std, Epsilon))

\* faulty variant of the comparison: the operands are swapped
ExceedsSwapped(z_score, threshold) == Gt(threshold, z_score)

\* z_score > self.threshold
Exceeds(z_score, threshold) == Gt(z_score, threshold)

\* faulty variant of the first call: the mean starts at 0, not at the value
FirstCallZeroMean(self, value) ==
    [self |-> [self EXCEPT !.mean_ewma = Zero, !.variance_ewma = Zero],
     ret  |-> FALSE]

\* detect on the first call (self.mean_ewma is None): the detector after
\* the call (self) and the value returned (ret)
FirstCall(self, value) ==
    [self |-> [self EXCEPT !.mean_ewma = value, !.variance_ewma = Zero],
     ret  |-> FALSE]

\* faulty variant of a later call: the Z-score is computed from the
\* variance as it was before this call's update
LaterCallStaleVariance(self, value) ==
    LET mean      == UpdateMean(self.alpha, value, self.mean_ewma)
        deviation == Sub(value, mean)
        variance  == UpdateVariance(self.alpha, deviation, self.variance_ewma)
    IN  [self |-> [self EXCEPT !.mean_ewma = mean, !.variance_ewma = variance],
         ret  |-> Exceeds(ZScore(deviation, self.variance_ewma),
                          self.threshold)]

\* detect on a later call: the mean is updated first, the deviation is
\* taken from the updated mean, the variance is updated with it, and the
\* Z-score is computed from the updated variance.  locals holds the values
\* of the call in the order of the statements that assign them.
LaterCall(self, value) ==
    LET mean      == UpdateMean(self.alpha, value, self.mean_ewma)
        deviation == Sub(value, mean)
        variance  == UpdateVariance(self.alpha, deviation, self.variance_ewma)
    IN  [self |-> [self EXCEPT !.mean_ewma = mean, !.variance_ewma = variance],
         ret  |-> Exceeds(ZScore(deviation, variance), self.threshold)]

\* ZScoreEWMA_AnomalyDetector.detect
detect(self, value) ==
    IF self.mean_ewma = None THEN FirstCall(self, value)
    ELSE LaterCall(self, value)

(***************************************************************************)
(* The program: detector instances and, per instance, the consumer loop of *)
(* real_time_visualization with its two lists.                             *)
(***************************************************************************)
VARIABLES anomaly_detector, data_points, anomalies

vars == <<anomaly_detector, data_points, anomalies>>

\* bounds of the model: the calls of detect per instance
MaxCalls == 5
MaxNonFiniteCalls == 3
MaxPairCalls == 3

\* detector instances: the main program makes one; independence is a
\* statement about two
Ids == {1, 2}

\* constructor arguments <<alpha, threshold>>: the main program's (0.3, 3),
\* others in the documented range 0 < alpha < 1 with a positive threshold,
\* and two outside it
Configs ==
    {<<Dec(3, 1), Dec(3, 0)>>, <<Dec(3, 1), Dec(1, 0)>>,
     <<Dec(5, 1), Dec(3, 0)>>, <<Dec(1, 1), Dec(1, 0)>>,
     <<Dec(4, 2), Dec(5, 0)>>,
     <<Dec(15, 1), Dec(3, 0)>>, <<Dec(3, 1), Dec(-3, 0)>>}

\* 100000000001.0, a value whose significand has no spare bits left
LargeValue == Add(Mul(FromInt(100000), FromInt(1000000)), One)

\* stream values
FiniteValues == {Dec(0, 0), Dec(10, 0), LargeValue}
NonFiniteValues == {NaN, Inf(1), Inf(-1)}

\* arguments and values of the two-instance runs
PairConfigs ==
    {<<Dec(1, 1), Dec(1, 0)>>, <<Dec(1, 1), Dec(3, 0)>>,
     <<Dec(5, 1), Dec(1, 0)>>}
PairValues == {Dec(0, 0), Dec(10, 0)}

\* no instance bound to the name yet
Unconstructed == __init__(None, None)

Constructed(i) == anomaly_detector[i] # Unconstructed

Init ==
    /\ anomaly_detector = [i \in Ids |-> Unconstructed]
    /\ data_points = [i \in Ids |-> <<>>]
    /\ anomalies = [i \in Ids |-> <<>>]

\* anomaly_detector = ZScoreEWMA_AnomalyDetector(alpha, threshold)
Construct(i, alpha, threshold) ==
    /\ ~Constructed(i)
    /\ anomaly_detector' =
           [anomaly_detector EXCEPT ![i] = __init__(alpha, threshold)]
    /\ UNCHANGED <<data_points, anomalies>>

\* faulty variant of the loop iteration: the statistics are class
\* attributes, so a call on one instance writes them for every instance
StepShared(i, value) ==
    \E r \in {detect(anomaly_detector[i], value)} :
        /\ Constructed(i)
        /\ data_points' = [data_points EXCEPT ![i] = Append(@, value)]
        /\ anomaly_detector' =
               [j \in Ids |->
                   IF Constructed(j)
                   THEN [anomaly_detector[j] EXCEPT
                            !.mean_ewma = r.self.mean_ewma,
                            !.variance_ewma = r.self.variance_ewma]
                   ELSE anomaly_detector[j]]
        /\ anomalies' =
               [anomalies EXCEPT
                   ![i] = IF r.ret THEN Append(@, Len(data_points'[i]) - 1)
                          ELSE @]

\* one iteration of the consumer loop: append the value, call detect, and
\* append the value's index to anomalies when detect returns True
Step(i, value) ==
    \E r \in {detect(anomaly_detector[i], value)} :
        /\ Constructed(i)
        /\ data_points' = [data_points EXCEPT ![i] = Append(@, value)]
        /\ anomaly_detector' = [anomaly_detector EXCEPT ![i] = r.self]
        /\ anomalies' =
               [anomalies EXCEPT
                   ![i] = IF r.ret THEN Append(@, Len(data_points'[i]) - 1)
                          ELSE @]

\* one detector, any constructor arguments, a stream of finite values
Next ==
    \/ \E c \in Configs : Construct(1, c[1], c[2])
    \/ \E v \in FiniteValues : Len(data_points[1]) < MaxCalls /\ Step(1, v)

Spec == Init /\ [][Next]_vars

\* one detector, a stream that may hold nan and the infinities
NextNonFinite ==
    \/ \E c \in Configs : Construct(1, c[1], c[2])
    \/ \E v \in {Dec(0, 0), Dec(10, 0)} \cup NonFiniteValues :
           Len(data_points[1]) < MaxNonFiniteCalls /\ Step(1, v)

SpecNonFinite == Init /\ [][NextNonFinite]_vars

\* two detectors fed independently
NextPair ==
    \/ \E i \in Ids, c \in PairConfigs : Construct(i, c[1], c[2])
    \/ \E i \in Ids, v \in PairValues :
           Len(data_points[i]) < MaxPairCalls /\ Step(i, v)

SpecPair == Init /\ [][NextPair]_vars

(***************************************************************************)
(* Vocabulary of the properties                                            *)
(***************************************************************************)
\* the documented range of the constructor arguments
InRange(d) ==
    /\ Gt(d.alpha, Zero) /\ Gt(One, d.alpha)
    /\ Gt(d.threshold, Zero)

\* detect returned True on the call with 0-based index k
Flagged(i, k) == \E j \in 1..Len(anomalies[i]) : anomalies[i][j] = k

\* every value fed to instance i so far is the same value
ConstantStream(i) ==
    \A k \in 1..Len(data_points[i]) : data_points[i][k] = data_points[i][1]

\* the step feeds a value to instance i; the value it feeds
Fed(i) == Len(data_points'[i]) = Len(data_points[i]) + 1
FedValue(i) == data_points'[i][Len(data_points'[i])]

Stats(i) ==
    <<anomaly_detector[i].mean_ewma, anomaly_detector[i].variance_ewma>>

(***************************************************************************)
(* C1  Cold start: after the first detect(v) of any detector, whatever its *)
(* arguments and however large v, nothing is flagged, mean_ewma is v and   *)
(* variance_ewma is 0.                                                     *)
(***************************************************************************)
C1_ColdStart ==
    \A i \in Ids :
        Len(data_points[i]) = 1 =>
            /\ anomalies[i] = <<>>
            /\ anomaly_detector[i].mean_ewma = data_points[i][1]
            /\ anomaly_detector[i].variance_ewma = Zero

\* a first call with the large value on a detector outside the documented
\* range
C1_Witness ==
    /\ data_points[1] = <<LargeValue>>
    /\ anomaly_detector[1].alpha = Dec(15, 1)
    /\ anomaly_detector[1].mean_ewma = LargeValue

(***************************************************************************)
(* C2  With alpha = 0.3 and threshold = 3 the sequence [0, 0, 0, 0, 10]    *)
(* yields the flags [false, false, false, false, true]: exactly the fifth  *)
(* call (index 4) is flagged.                                              *)
(***************************************************************************)
C2_ScenarioFlagsFifth ==
    (/\ anomaly_detector[1].alpha = Dec(3, 1)
     /\ anomaly_detector[1].threshold = Dec(3, 0)
     /\ data_points[1] = <<Dec(0, 0), Dec(0, 0), Dec(0, 0), Dec(0, 0),
                           Dec(10, 0)>>)
        => anomalies[1] = <<4>>

(***************************************************************************)
(* C3  Constant stream: for alpha in (0, 1) and threshold > 0, feeding the *)
(* same value on every call never flags anything.                          *)
(***************************************************************************)
C3_ConstantStreamNeverFlagged ==
    \A i \in Ids :
        (Constructed(i) /\ InRange(anomaly_detector[i]) /\ ConstantStream(i))
            => anomalies[i] = <<>>

(***************************************************************************)
(* C5  Variance non-negativity: for alpha in (0, 1) and finite inputs,     *)
(* variance_ewma is >= 0 after every detect call.                          *)
(***************************************************************************)
C5_VarianceNonNegative ==
    \A i \in Ids :
        (/\ Len(data_points[i]) >= 1
         /\ Gt(anomaly_detector[i].alpha, Zero)
         /\ Gt(One, anomaly_detector[i].alpha))
            => Ge(anomaly_detector[i].variance_ewma, Zero)

\* a positive variance after a value below the mean (a negative deviation)
C5_Witness ==
    /\ InRange(anomaly_detector[1])
    /\ data_points[1] = <<Dec(10, 0), Dec(0, 0)>>
    /\ Gt(anomaly_detector[1].variance_ewma, Zero)

(***************************************************************************)
(* C6  Configuration error: no detector exists whose alpha is outside      *)
(* (0, 1) or whose threshold is <= 0, because constructing one raises.     *)
(***************************************************************************)
C6_OnlyValidDetectorsExist ==
    \A i \in Ids : Constructed(i) => InRange(anomaly_detector[i])

(***************************************************************************)
(* C7  Invalid input: a detect call whose value is nan or infinite is      *)
(* rejected before any state is changed: mean_ewma and variance_ewma after *)
(* the call are what they were before it.                                  *)
(***************************************************************************)
C7_NonFiniteLeavesState ==
    \A i \in Ids :
        (Fed(i) /\ ~IsFinite(FedValue(i))) =>
            anomaly_detector'[i] = anomaly_detector[i]

C7_NonFiniteRejected == [][C7_NonFiniteLeavesState]_vars

(***************************************************************************)
(* C9  On every call after the first the deviation is the value minus the  *)
(* mean before this call's mean update, so that after the call             *)
(* mean_ewma = alpha*value + (1-alpha)*oldMean and                         *)
(* variance_ewma = alpha*(value - oldMean)^2 + (1-alpha)*oldVariance.      *)
(***************************************************************************)
C9_PreUpdateStep ==
    \A i \in Ids :
        (Fed(i) /\ Len(data_points[i]) >= 1) =>
            LET old   == anomaly_detector[i]
                value == FedValue(i)
                dev   == Sub(value, old.mean_ewma)
            IN  /\ anomaly_detector'[i].mean_ewma =
                       Add(Mul(old.alpha, value),
                           Mul(Sub(One, old.alpha), old.mean_ewma))
                /\ anomaly_detector'[i].variance_ewma =
                       Add(Mul(old.alpha, Mul(dev, dev)),
                           Mul(Sub(One, old.alpha), old.variance_ewma))

C9_PreUpdateDeviation == [][C9_PreUpdateStep]_vars

(***************************************************************************)
(* C10  A detector with alpha * threshold^2 >= 1 (alpha in (0, 1),         *)
(* threshold > 0) never flags any value of any finite sequence.            *)
(***************************************************************************)
C10_NeverFlagsFromOne ==
    \A i \in Ids :
        (/\ Constructed(i)
         /\ InRange(anomaly_detector[i])
         /\ Ge(Mul(anomaly_detector[i].alpha,
                   Mul(anomaly_detector[i].threshold,
                       anomaly_detector[i].threshold)), One))
            => anomalies[i] = <<>>

(***************************************************************************)
(* C10 amended: a detector with alpha in (0, 1), threshold > 0 and         *)
(* alpha * threshold^2 >= 1.01 (the main program's 0.3 and 3 among them)   *)
(* never flags any value of any finite sequence.                           *)
(***************************************************************************)
C10_NeverFlagsWithMargin ==
    \A i \in Ids :
        (/\ Constructed(i)
         /\ InRange(anomaly_detector[i])
         /\ Ge(Mul(anomaly_detector[i].alpha,
                   Mul(anomaly_detector[i].threshold,
                       anomaly_detector[i].threshold)), Dec(101, 2)))
            => anomalies[i] = <<>>

\* the main program's detector after four zeros and a 10, nothing flagged
C10_Witness ==
    /\ anomaly_detector[1].alpha = Dec(3, 1)
    /\ anomaly_detector[1].threshold = Dec(3, 0)
    /\ data_points[1] = <<Dec(0, 0), Dec(0, 0), Dec(0, 0), Dec(0, 0),
                          Dec(10, 0)>>
    /\ anomalies[1] = <<>>

(***************************************************************************)
(* C4  Monotonic threshold sensitivity: two detectors with the same alpha  *)
(* and thresholds tauA < tauB that were fed the same sequence hold the     *)
(* same mean_ewma and variance_ewma, and every index flagged by B is       *)
(* flagged by A.                                                           *)
(***************************************************************************)
C4_MonotonicThreshold ==
    \A a, b \in Ids :
        (/\ Constructed(a) /\ Constructed(b)
         /\ anomaly_detector[a].alpha = anomaly_detector[b].alpha
         /\ Gt(anomaly_detector[b].threshold, anomaly_detector[a].threshold)
         /\ data_points[a] = data_points[b])
            => /\ Stats(a) = Stats(b)
               /\ \A k \in 0..(Len(data_points[b]) - 1) :
                      Flagged(b, k) => Flagged(a, k)

\* thresholds 1 and 3 on [0, 10, 10]: both flag index 1, only A flags 2
C4_Witness ==
    /\ anomaly_detector[1].alpha = anomaly_detector[2].alpha
    /\ Gt(anomaly_detector[2].threshold, anomaly_detector[1].threshold)
    /\ data_points[1] = <<Dec(0, 0), Dec(10, 0), Dec(10, 0)>>
    /\ data_points[2] = data_points[1]
    /\ anomalies[1] = <<1, 2>>
    /\ anomalies[2] = <<1>>

(***************************************************************************)
(* C8  Determinism and instance independence: two instances constructed    *)
(* with the same alpha and threshold and fed the same sequence have        *)
(* returned the same results and hold the same mean_ewma and               *)
(* variance_ewma; and a step that feeds one instance leaves the detector   *)
(* and the lists of every other instance as they were.                     *)
(***************************************************************************)
C8_Deterministic ==
    \A a, b \in Ids :
        (/\ anomaly_detector[a].alpha = anomaly_detector[b].alpha
         /\ anomaly_detector[a].threshold = anomaly_detector[b].threshold
         /\ data_points[a] = data_points[b])
            => /\ Stats(a) = Stats(b)
               /\ anomalies[a] = anomalies[b]

C8_Independent ==
    \A i \in Ids :
        Fed(i) =>
            \A j \in Ids \ {i} :
                /\ anomaly_detector'[j] = anomaly_detector[j]
                /\ data_points'[j] = data_points[j]
                /\ anomalies'[j] = anomalies[j]

C8_DeterminismAndIndependence ==
    []C8_Deterministic /\ [][C8_Independent]_vars

\* two instances with the same arguments after the same three values, one
\* of them flagged, and a third pairing where the instances differ
C8_Witness ==
    /\ Constructed(1)
    /\ anomaly_detector[1].alpha = anomaly_detector[2].alpha
    /\ anomaly_detector[1].threshold = anomaly_detector[2].threshold
    /\ data_points[1] = <<Dec(0, 0), Dec(10, 0), Dec(0, 0)>>
    /\ data_points[2] = data_points[1]
    /\ anomalies[1] # <<>>

====
